---- MODULE Spec2Model ----
(***************************************************************************)
(* Model of Scripts/generate_embeddings_basic.py: the loader               *)
(* (load_knowledge_files), the database builder (create_database) and the  *)
(* top-level procedure with its verifier (main).                           *)
(*                                                                         *)
(* The output path is modelled by its committed content (db_file) and the  *)
(* writing connection by its own view of the database (conn).  The         *)
(* connection follows the transaction control of Python's sqlite3 module   *)
(* in its default mode: a transaction is opened implicitly before an       *)
(* INSERT, a statement executed while no transaction is open is committed  *)
(* by the engine at once, and a connection dropped without commit rolls    *)
(* its open transaction back.                                              *)
(***************************************************************************)
EXTENDS Integers, Sequences, FiniteSets, TLC

(* ------------------------------ bounds --------------------------------- *)

\* Largest number of *.json files in the knowledge directory.
MaxFiles == 2

\* Largest number of elements of "scenarios" lists, summed over the files.
MaxTotal == 2

(* --------------------------- input domain ------------------------------ *)

\* The keys create_database reads from a scenario, in the order it reads them.
RequiredFields == <<"id", "category", "keywords", "context", "priority">>

\* Scenario objects that carry every field of the documented shape.
FullScenarios ==
    { [id |-> "fire-01",  keywords |-> <<"smoke", "flame">>, context |-> "...",   priority |-> "high"],
      [id |-> "flood-01", keywords |-> <<"rain">>,           context |-> "water", priority |-> "medium"],
      [id |-> "quake-01", keywords |-> <<>>,                 context |-> "shake", priority |-> "low"],
      [id |-> "fire-01",  keywords |-> <<"burn">>,           context |-> "other", priority |-> "low"] }

\* A scenario object without the key k.
Without(s, k) == [f \in (DOMAIN s) \ {k} |-> s[f]]

\* Scenario objects that lack one of id, keywords, context, priority.
PartialScenarios ==
    LET s == [id |-> "gas-01", keywords |-> <<"leak">>, context |-> "gas", priority |-> "high"]
    IN  { Without(s, k) : k \in {"id", "keywords", "context", "priority"} }

\* Elements a "scenarios" list can hold: JSON objects, or a JSON string.
Items ==
    { [type |-> "object", value |-> s] : s \in FullScenarios \cup PartialScenarios }
        \cup { [type |-> "string"] }

ItemLists(r) == UNION { [1..k -> Items] : k \in 0..r }

\* What a *.json file of the directory can be, with at most r scenarios.
Files(r) ==
    { [kind |-> "unreadable"], [kind |-> "invalid_json"], [kind |-> "array"] }
        \cup { [kind |-> "object", data |-> [category |-> "fire", scenarios |-> s]] : s \in ItemLists(r) }
        \cup { [kind |-> "object", data |-> [scenarios |-> s]] : s \in ItemLists(r) }
        \cup { [kind |-> "object", data |-> [category |-> "fire"]] }

(* ------------------------------ database ------------------------------- *)

NULL == [sql |-> "NULL"]

\* A database with no schema object and no row.
EmptyDb == [schema |-> {}, knowledge |-> <<>>, knowledge_fts |-> {}, metadata |-> {}]

\* No file at the output path.
NoFile == [exists |-> FALSE, db |-> EmptyDb]

\* The schema statements with the after-insert trigger left out.
SchemaWithoutInsertTrigger ==
    << "knowledge", "knowledge_fts", "knowledge_ad", "knowledge_au",
       "idx_category", "idx_priority" >>

\* The statements of create_database that create the schema before the inserts.
SchemaStatements ==
    << "knowledge", "knowledge_fts", "knowledge_ai", "knowledge_ad", "knowledge_au",
       "idx_category", "idx_priority" >>

\* The database a previous run left at the output path.
OldDb ==
    [exists |-> TRUE,
     db |-> [schema |-> { SchemaStatements[i] : i \in DOMAIN SchemaStatements } \cup {"metadata"},
             knowledge |-> << [rowid |-> 1, id |-> "fire-01", category |-> "fire",
                               keywords |-> "smoke, flame", context |-> "...",
                               priority |-> "high", embedding |-> NULL] >>,
             knowledge_fts |-> { [rowid |-> 1, id |-> "fire-01", category |-> "fire",
                                  keywords |-> "smoke, flame", context |-> "..."] },
             metadata |-> { <<"model_name", "keyword-only">>, <<"embedding_dim", "0">>,
                            <<"version", "1.0-basic">>, <<"total_scenarios", "1">> }]]

NoConnection == [open |-> FALSE, in_transaction |-> FALSE, db |-> EmptyDb]

VARIABLES
    pc,             \* position of the run
    knowledge_dir,  \* the input directory: whether it exists and how many *.json files it holds
    files_read,     \* number of *.json files the loader has gone through
    all_scenarios,  \* the loader's result list / create_database's scenarios
    db_file,        \* committed content of the output path
    conn,           \* the writing connection and its view of the database
    stmt,           \* create_database: number of schema statements executed so far
    i,              \* create_database: number of scenarios inserted so far
    count,          \* verifier: SELECT COUNT(*) FROM knowledge (-1 before)
    metadata,       \* verifier: rows of SELECT key, value FROM metadata
    exit_status,    \* -1 while running, then the process's exit status
    error,          \* the exception that ended the run, "" if none
    old_db,         \* history: content of the output path when the run started
    dir_scenarios,  \* history: elements of the "scenarios" lists of the files read
    files_ok,       \* history: every file read so far parsed to a JSON object
    origin,         \* history: for each element of all_scenarios, the file it came from
    failed          \* history: the files whose load raised

vars == << pc, knowledge_dir, files_read, all_scenarios, db_file, conn, stmt, i, count, metadata,
           exit_status, error, old_db, dir_scenarios, files_ok, origin, failed >>

Init ==
    /\ pc = "main"
    /\ knowledge_dir \in { [exists |-> FALSE, json_files |-> 0] }
                            \cup { [exists |-> TRUE, json_files |-> n] : n \in 0..MaxFiles }
    /\ files_read = 0
    /\ all_scenarios = <<>>
    /\ db_file \in {NoFile, OldDb}
    /\ conn = NoConnection
    /\ stmt = 0
    /\ i = 0
    /\ count = -1
    /\ metadata = {}
    /\ exit_status = -1
    /\ error = ""
    /\ old_db = db_file
    /\ dir_scenarios = <<>>
    /\ files_ok = TRUE
    /\ origin = <<>>
    /\ failed = {}

(* ------------------------------- loader -------------------------------- *)

\* dict.get(key, default)
Get(d, key, default) == IF key \in DOMAIN d THEN d[key] ELSE default

\* scenario['category'] = category
Tag(scenario, category) ==
    [k \in (DOMAIN scenario) \cup {"category"} |->
        IF k = "category" THEN category ELSE scenario[k]]

\* Index of the first element of a scenarios list that is no object (item
\* assignment raises on it), Len + 1 if there is none.
FirstBad(scenarios) ==
    LET bad == { k \in 1..Len(scenarios) : scenarios[k].type # "object" }
    IN  IF bad = {} THEN Len(scenarios) + 1
        ELSE CHOOSE k \in bad : \A j \in bad : k <= j

\* A loop over the scenarios that stops one element early.
LoadOneDropsLast(f) ==
    IF f.kind # "object"
    THEN [raised |-> TRUE, appended |-> <<>>]
    ELSE LET category  == Get(f.data, "category", "unknown")
             scenarios == Get(f.data, "scenarios", <<>>)
             stop      == FirstBad(scenarios)
         IN  [raised   |-> stop <= Len(scenarios),
              appended |-> [k \in 1..(stop - 2) |-> Tag(scenarios[k].value, category)]]

\* The body of the try block for one file: whether it raises, and the
\* scenarios it has appended to all_scenarios by the time it ends.
LoadOne(f) ==
    IF f.kind # "object"
    THEN [raised |-> TRUE, appended |-> <<>>]
    ELSE LET category  == Get(f.data, "category", "unknown")
             scenarios == Get(f.data, "scenarios", <<>>)
             stop      == FirstBad(scenarios)
         IN  [raised   |-> stop <= Len(scenarios),
              appended |-> [k \in 1..(stop - 1) |-> Tag(scenarios[k].value, category)]]

Exit(status, exc) ==
    /\ pc' = "exit"
    /\ exit_status' = status
    /\ error' = exc

\* main: the knowledge directory must exist.
CheckDirectory ==
    /\ pc = "main"
    /\ IF knowledge_dir.exists
       THEN /\ pc' = "glob"
            /\ UNCHANGED << exit_status, error >>
       ELSE Exit(1, "SystemExit")
    /\ UNCHANGED << knowledge_dir, files_read, all_scenarios, db_file, conn, stmt, i, count, metadata,
                    old_db, dir_scenarios, files_ok, origin, failed >>

\* load_knowledge_files: list the *.json files; return at once if there is none.
Glob ==
    /\ pc = "glob"
    /\ pc' = IF knowledge_dir.json_files = 0 THEN "check" ELSE "load"
    /\ UNCHANGED << knowledge_dir, files_read, all_scenarios, db_file, conn, stmt, i, count, metadata,
                    exit_status, error, old_db, dir_scenarios, files_ok, origin, failed >>

\* load_knowledge_files: one iteration of the loop over the files.
LoadFile ==
    /\ pc = "load"
    /\ \E f \in Files(MaxTotal - Len(dir_scenarios)) :
         LET r == LoadOne(f)
             n == files_read + 1
         IN  /\ all_scenarios' = all_scenarios \o r.appended
             /\ files_read' = n
             /\ pc' = IF n = knowledge_dir.json_files THEN "check" ELSE "load"
             /\ dir_scenarios' = IF f.kind = "object"
                                 THEN dir_scenarios \o Get(f.data, "scenarios", <<>>)
                                 ELSE dir_scenarios
             /\ files_ok' = (files_ok /\ f.kind = "object")
             /\ origin' = origin \o [k \in 1..Len(r.appended) |-> n]
             /\ failed' = IF r.raised THEN failed \cup {n} ELSE failed
    /\ UNCHANGED << knowledge_dir, db_file, conn, stmt, i, count, metadata, exit_status, error, old_db >>

\* main without the test for an empty result.
CheckLoadedNoTest ==
    /\ pc = "check"
    /\ pc' = "unlink"
    /\ UNCHANGED << knowledge_dir, files_read, all_scenarios, db_file, conn, stmt, i, count,
                    metadata, exit_status, error, old_db, dir_scenarios, files_ok, origin,
                    failed >>

\* main: an empty result is fatal; otherwise create_database is called.
CheckLoaded ==
    /\ pc = "check"
    /\ IF all_scenarios = <<>>
       THEN Exit(1, "SystemExit")
       ELSE /\ pc' = "unlink"
            /\ UNCHANGED << exit_status, error >>
    /\ UNCHANGED << knowledge_dir, files_read, all_scenarios, db_file, conn, stmt, i, count, metadata,
                    old_db, dir_scenarios, files_ok, origin, failed >>

(* -------------------------- storage engine ----------------------------- *)

\* An unlink that leaves the file in place.
UnlinkKeeps(file) == file

\* db_path.unlink()
Unlink(file) == NoFile

\* sqlite3.connect(path): opens the database at the path, creating an empty
\* one when there is no file; no transaction is open.
Connect(file) == [open |-> TRUE, in_transaction |-> FALSE, db |-> file.db]

\* The committed content after a statement of connection c: a statement run
\* while no transaction is open is committed by the engine at once; inside a
\* transaction the file keeps its content until conn.commit().
Autocommit(c, file) ==
    IF c.in_transaction THEN file ELSE [exists |-> TRUE, db |-> c.db]

\* CREATE TABLE / VIRTUAL TABLE / TRIGGER / INDEX: no transaction is opened.
CreateObject(c, name) == [c EXCEPT !.db.schema = @ \cup {name}]

\* The implicit BEGIN before INSERT.
Begin(c) == [c EXCEPT !.in_transaction = TRUE]

\* conn.commit()
Commit(c) == [c EXCEPT !.in_transaction = FALSE]

\* Body of the trigger knowledge_ai: the full-text entry of a new row.
knowledge_ai(new) ==
    [rowid |-> new.rowid, id |-> new.id, category |-> new.category,
     keywords |-> new.keywords, context |-> new.context]

\* The rowid the engine gives a new row of a table without INTEGER PRIMARY KEY.
NextRowid(rows) ==
    IF rows = <<>> THEN 1
    ELSE 1 + CHOOSE m \in { rows[k].rowid : k \in DOMAIN rows } :
                 \A k \in DOMAIN rows : rows[k].rowid <= m

\* id TEXT PRIMARY KEY
UniqueViolation(db, id) == \E k \in DOMAIN db.knowledge : db.knowledge[k].id = id

\* INSERT INTO knowledge (...) VALUES (?, ?, ?, ?, ?, NULL), with the
\* after-insert trigger when it exists.
InsertKnowledge(db, scenario_id, category, keywords, context, priority) ==
    LET new == [rowid |-> NextRowid(db.knowledge), id |-> scenario_id, category |-> category,
                keywords |-> keywords, context |-> context, priority |-> priority,
                embedding |-> NULL]
    IN  [db EXCEPT !.knowledge = Append(@, new),
                   !.knowledge_fts = IF "knowledge_ai" \in db.schema
                                     THEN @ \cup {knowledge_ai(new)} ELSE @]

(* --------------------------- create_database --------------------------- *)

\* A join that puts the separator after every word.
RECURSIVE JoinTrailing(_, _)
JoinTrailing(sep, words) ==
    IF words = <<>> THEN ""
    ELSE words[1] \o sep \o JoinTrailing(sep, Tail(words))

\* sep.join(words)
RECURSIVE Join(_, _)
Join(sep, words) ==
    IF words = <<>> THEN ""
    ELSE IF Len(words) = 1 THEN words[1]
    ELSE words[1] \o sep \o Join(sep, Tail(words))

Digits == << "0", "1", "2", "3", "4", "5", "6", "7", "8", "9" >>

\* str(n) for n >= 0
RECURSIVE Str(_)
Str(n) == IF n < 10 THEN Digits[n + 1] ELSE Str(n \div 10) \o Digits[(n % 10) + 1]

\* Metadata rows whose total is the index of the last scenario, counted from 0.
MetadataRowsOffByOne(scenarios) ==
    { <<"model_name", "keyword-only">>, <<"embedding_dim", "0">>,
      <<"version", "1.0-basic">>, <<"total_scenarios", Str(Len(scenarios) - 1)>> }

\* The four rows of the metadata INSERT.
MetadataRows(scenarios) ==
    { <<"model_name", "keyword-only">>, <<"embedding_dim", "0">>,
      <<"version", "1.0-basic">>, <<"total_scenarios", Str(Len(scenarios))>> }

\* The first key create_database reads from the scenario that the scenario
\* lacks, "" if it has them all.
MissingKey(scenario) ==
    LET lacking == { k \in DOMAIN RequiredFields : RequiredFields[k] \notin DOMAIN scenario }
    IN  IF lacking = {} THEN ""
        ELSE RequiredFields[CHOOSE k \in lacking : \A j \in lacking : k <= j]

\* An exception leaves create_database and main: the connection is dropped
\* without commit, which rolls its open transaction back, and the interpreter
\* exits with status 1.
Abort(exc) ==
    /\ conn' = NoConnection
    /\ Exit(1, exc)
    /\ UNCHANGED db_file

\* if db_path.exists(): db_path.unlink()
RemoveExisting ==
    /\ pc = "unlink"
    /\ db_file' = IF db_file.exists THEN Unlink(db_file) ELSE db_file
    /\ pc' = "connect"
    /\ UNCHANGED << knowledge_dir, files_read, all_scenarios, conn, stmt, i, count, metadata,
                    exit_status, error, old_db, dir_scenarios, files_ok, origin, failed >>

\* conn = sqlite3.connect(str(db_path))
OpenConnection ==
    /\ pc = "connect"
    /\ conn' = Connect(db_file)
    /\ db_file' = [db_file EXCEPT !.exists = TRUE]
    /\ pc' = "schema"
    /\ UNCHANGED << knowledge_dir, files_read, all_scenarios, stmt, i, count, metadata,
                    exit_status, error, old_db, dir_scenarios, files_ok, origin, failed >>

\* The next of the CREATE statements that precede the inserts.
CreateSchema ==
    /\ pc = "schema"
    /\ LET name == SchemaStatements[stmt + 1]
       IN  IF name \in conn.db.schema
           THEN /\ Abort("OperationalError")
                /\ UNCHANGED stmt
           ELSE /\ conn' = CreateObject(conn, name)
                /\ db_file' = Autocommit(conn', db_file)
                /\ stmt' = stmt + 1
                /\ pc' = IF stmt' < Len(SchemaStatements) THEN "schema"
                         ELSE IF all_scenarios = <<>> THEN "metadata_table" ELSE "insert"
                /\ UNCHANGED << exit_status, error >>
    /\ UNCHANGED << knowledge_dir, files_read, all_scenarios, i, count, metadata,
                    old_db, dir_scenarios, files_ok, origin, failed >>

\* An insertion loop that passes over a scenario lacking a key.
InsertScenarioSkipping ==
    /\ pc = "insert"
    /\ LET scenario == all_scenarios[i + 1]
       IN  IF MissingKey(scenario) # ""
           THEN /\ i' = i + 1
                /\ pc' = IF i' < Len(all_scenarios) THEN "insert" ELSE "metadata_table"
                /\ UNCHANGED << conn, db_file, exit_status, error >>
           ELSE IF UniqueViolation(conn.db, scenario.id)
           THEN /\ Abort("IntegrityError")
                /\ UNCHANGED i
           ELSE /\ conn' = [Begin(conn) EXCEPT !.db =
                               InsertKnowledge(@, scenario.id, scenario.category,
                                               Join(", ", scenario.keywords),
                                               scenario.context, scenario.priority)]
                /\ db_file' = Autocommit(conn', db_file)
                /\ i' = i + 1
                /\ pc' = IF i' < Len(all_scenarios) THEN "insert" ELSE "metadata_table"
                /\ UNCHANGED << exit_status, error >>
    /\ UNCHANGED << knowledge_dir, files_read, all_scenarios, stmt, count, metadata,
                    old_db, dir_scenarios, files_ok, origin, failed >>

\* One iteration of the insertion loop.
InsertScenario ==
    /\ pc = "insert"
    /\ LET scenario == all_scenarios[i + 1]
       IN  IF MissingKey(scenario) # ""
           THEN /\ Abort("KeyError")
                /\ UNCHANGED i
           ELSE IF UniqueViolation(conn.db, scenario.id)
           THEN /\ Abort("IntegrityError")
                /\ UNCHANGED i
           ELSE /\ conn' = [Begin(conn) EXCEPT !.db =
                               InsertKnowledge(@, scenario.id, scenario.category,
                                               Join(", ", scenario.keywords),
                                               scenario.context, scenario.priority)]
                /\ db_file' = Autocommit(conn', db_file)
                /\ i' = i + 1
                /\ pc' = IF i' < Len(all_scenarios) THEN "insert" ELSE "metadata_table"
                /\ UNCHANGED << exit_status, error >>
    /\ UNCHANGED << knowledge_dir, files_read, all_scenarios, stmt, count, metadata,
                    old_db, dir_scenarios, files_ok, origin, failed >>

\* CREATE TABLE metadata
CreateMetadataTable ==
    /\ pc = "metadata_table"
    /\ IF "metadata" \in conn.db.schema
       THEN Abort("OperationalError")
       ELSE /\ conn' = CreateObject(conn, "metadata")
            /\ db_file' = Autocommit(conn', db_file)
            /\ pc' = "metadata_rows"
            /\ UNCHANGED << exit_status, error >>
    /\ UNCHANGED << knowledge_dir, files_read, all_scenarios, stmt, i, count, metadata,
                    old_db, dir_scenarios, files_ok, origin, failed >>

\* INSERT INTO metadata (key, value) VALUES ...
InsertMetadata ==
    /\ pc = "metadata_rows"
    /\ conn' = [Begin(conn) EXCEPT !.db.metadata = @ \cup MetadataRows(all_scenarios)]
    /\ db_file' = Autocommit(conn', db_file)
    /\ pc' = "commit"
    /\ UNCHANGED << knowledge_dir, files_read, all_scenarios, stmt, i, count, metadata,
                    exit_status, error, old_db, dir_scenarios, files_ok, origin, failed >>

\* conn.commit()
CommitBuild ==
    /\ pc = "commit"
    /\ conn' = Commit(conn)
    /\ db_file' = [exists |-> TRUE, db |-> conn.db]
    /\ pc' = "close"
    /\ UNCHANGED << knowledge_dir, files_read, all_scenarios, stmt, i, count, metadata,
                    exit_status, error, old_db, dir_scenarios, files_ok, origin, failed >>

\* conn.close(); create_database returns.
CloseConnection ==
    /\ pc = "close"
    /\ conn' = NoConnection
    /\ pc' = "verify"
    /\ UNCHANGED << knowledge_dir, files_read, all_scenarios, db_file, stmt, i, count, metadata,
                    exit_status, error, old_db, dir_scenarios, files_ok, origin, failed >>

\* A statement of create_database fails in the storage engine.
StorageError ==
    /\ pc \in {"schema", "insert", "metadata_table", "metadata_rows", "commit"}
    /\ Abort("OperationalError")
    /\ UNCHANGED << knowledge_dir, files_read, all_scenarios, stmt, i, count, metadata,
                    old_db, dir_scenarios, files_ok, origin, failed >>

(* ------------------------------ verifier ------------------------------- *)

\* main: reopen the database, count the rows, read the metadata; the
\* interpreter then ends with status 0.
Verify ==
    /\ pc = "verify"
    /\ count' = Len(db_file.db.knowledge)
    /\ metadata' = db_file.db.metadata
    /\ Exit(0, "")
    /\ UNCHANGED << knowledge_dir, files_read, all_scenarios, db_file, conn, stmt, i,
                    old_db, dir_scenarios, files_ok, origin, failed >>

Next ==
    \/ CheckDirectory
    \/ Glob
    \/ LoadFile
    \/ CheckLoaded
    \/ RemoveExisting
    \/ OpenConnection
    \/ CreateSchema
    \/ InsertScenario
    \/ CreateMetadataTable
    \/ InsertMetadata
    \/ CommitBuild
    \/ CloseConnection
    \/ StorageError
    \/ Verify

Spec == Init /\ [][Next]_vars

(* ------------------------------ properties ----------------------------- *)

\* The run has ended with exit status 0.
Succeeded == pc = "exit" /\ exit_status = 0

\* The keys the documented scenario shape requires.
ScenarioKeys == {"id", "keywords", "context", "priority"}

\* Every file read parsed to an object, every element of a scenarios list is
\* an object with id, keywords, context and priority, and all ids differ.
ValidDirectory ==
    /\ files_ok
    /\ \A k \in DOMAIN dir_scenarios :
         /\ dir_scenarios[k].type = "object"
         /\ ScenarioKeys \subseteq DOMAIN dir_scenarios[k].value
    /\ \A j, k \in DOMAIN dir_scenarios :
         j # k => dir_scenarios[j].value.id # dir_scenarios[k].value.id

\* C1: for a valid input directory, after a successful run of main the
\* knowledge table has as many rows as the files hold scenario objects.
C1_RowCountEqualsScenarioCount ==
    (Succeeded /\ ValidDirectory) =>
        Len(db_file.db.knowledge) = Len(dir_scenarios)

C1_Witness ==
    /\ Succeeded
    /\ ValidDirectory
    /\ files_read = 2
    /\ Len(dir_scenarios) = 2
    /\ origin = << 1, 2 >>

\* The full-text index of db holds exactly one entry per knowledge row, with
\* the row's rowid, id, category, keywords and context.
FtsMirrors(db) ==
    /\ db.knowledge_fts =
         { [rowid |-> db.knowledge[k].rowid, id |-> db.knowledge[k].id,
            category |-> db.knowledge[k].category, keywords |-> db.knowledge[k].keywords,
            context |-> db.knowledge[k].context] : k \in DOMAIN db.knowledge }
    /\ Cardinality(db.knowledge_fts) = Len(db.knowledge)

\* C2: during the build the full-text mirror agrees with the knowledge table
\* after every insert, the first included, in the connection's view and in
\* the committed file, and the after-insert trigger exists whenever a
\* scenario row is about to be inserted.
C2_FtsConsistent ==
    /\ conn.open => FtsMirrors(conn.db)
    /\ FtsMirrors(db_file.db)
    /\ pc = "insert" => "knowledge_ai" \in conn.db.schema

C2_Witness ==
    /\ conn.open
    /\ Len(conn.db.knowledge) = 2
    /\ Cardinality(conn.db.knowledge_fts) = 2

\* Two scenarios of the list carry the same id.
DuplicateIds(scenarios) ==
    \E j, k \in DOMAIN scenarios :
        /\ j # k
        /\ "id" \in DOMAIN scenarios[j]
        /\ "id" \in DOMAIN scenarios[k]
        /\ scenarios[j].id = scenarios[k].id

\* C3: on a list of complete scenarios with a duplicate id, create_database
\* fails with a uniqueness-constraint error and the output path holds no
\* committed table, row or metadata afterwards.
C3_DuplicateLeavesNothingCommitted ==
    ( /\ pc = "exit"
      /\ DuplicateIds(all_scenarios)
      /\ \A k \in DOMAIN all_scenarios : ScenarioKeys \subseteq DOMAIN all_scenarios[k]
      /\ error # "OperationalError" )
    => ( /\ error = "IntegrityError"
         /\ db_file.db = EmptyDb )

\* Decimal numerals, written out.
Numerals == << "0", "1", "2", "3", "4", "5", "6", "7", "8", "9", "10", "11", "12" >>

\* The numbers a text reads as.
NumbersOf(text) == { n \in 0..(Len(Numerals) - 1) : Numerals[n + 1] = text }

\* C4: after a successful build the metadata table holds exactly the keys
\* model_name, embedding_dim, version and total_scenarios, and
\* total_scenarios reads as the row count of the knowledge table.
C4_MetadataTotal ==
    Succeeded =>
        /\ { row[1] : row \in db_file.db.metadata } =
               {"model_name", "embedding_dim", "version", "total_scenarios"}
        /\ Cardinality(db_file.db.metadata) = 4
        /\ \A row \in db_file.db.metadata :
               row[1] = "total_scenarios" =>
                   NumbersOf(row[2]) = { Len(db_file.db.knowledge) }

C4_Witness ==
    /\ Succeeded
    /\ Len(db_file.db.knowledge) = 2
    /\ <<"total_scenarios", "2">> \in db_file.db.metadata

\* C5: whatever the output path held before, no row of the old file is kept
\* once create_database has removed it, and after a successful run the
\* knowledge rows are exactly the scenarios of the current input, in order.
C5_Regeneration ==
    /\ pc \in {"connect", "schema", "insert", "metadata_table", "metadata_rows", "commit"}
           => db_file.db.knowledge = <<>>
    /\ Succeeded =>
           /\ Len(db_file.db.knowledge) = Len(all_scenarios)
           /\ \A k \in DOMAIN all_scenarios :
                  /\ db_file.db.knowledge[k].id = all_scenarios[k].id
                  /\ db_file.db.knowledge[k].category = all_scenarios[k].category
                  /\ db_file.db.knowledge[k].context = all_scenarios[k].context
                  /\ db_file.db.knowledge[k].priority = all_scenarios[k].priority

C5_Witness ==
    /\ Succeeded
    /\ old_db = OldDb
    /\ Len(db_file.db.knowledge) = 2
    /\ db_file.db.knowledge[1].id = "flood-01"

\* C6: with the input directory missing, without JSON files or with no
\* scenario loaded, main exits with status 1, create_database has not run
\* and the output path is as it was; a run that ends without an error ends
\* with status 0.
C6_NoInputNoDatabase ==
    /\ ( /\ pc = "exit"
         /\ \/ ~knowledge_dir.exists
            \/ knowledge_dir.json_files = 0
            \/ all_scenarios = <<>> )
       => ( /\ exit_status = 1
            /\ error = "SystemExit"
            /\ stmt = 0
            /\ ~conn.open
            /\ db_file = old_db )
    /\ (pc = "exit" /\ error = "") => exit_status = 0

C6_Witness ==
    /\ pc = "exit"
    /\ exit_status = 1
    /\ knowledge_dir.json_files = 2
    /\ files_read = 2
    /\ all_scenarios = <<>>
    /\ db_file = NoFile

\* The words of a sequence with ", " between neighbours, built from the left.
RECURSIVE CommaSeparated(_)
CommaSeparated(words) ==
    IF Len(words) = 0 THEN ""
    ELSE IF Len(words) = 1 THEN words[1]
    ELSE CommaSeparated(SubSeq(words, 1, Len(words) - 1)) \o ", " \o words[Len(words)]

\* Row k of the table is scenario k with its keywords joined by ", " and a
\* null embedding.
KeywordsStored(rows) ==
    \A k \in DOMAIN rows :
        /\ rows[k].keywords = CommaSeparated(all_scenarios[k].keywords)
        /\ all_scenarios[k].keywords = <<>> => rows[k].keywords = ""
        /\ all_scenarios[k].keywords = <<"smoke", "flame">> => rows[k].keywords = "smoke, flame"
        /\ Len(all_scenarios[k].keywords) = 1 => rows[k].keywords = all_scenarios[k].keywords[1]
        /\ rows[k].embedding = NULL

\* C7: every row create_database inserts stores the scenario's keywords
\* joined with ", " and a null embedding.
C7_KeywordsJoined ==
    /\ conn.open => KeywordsStored(conn.db.knowledge)
    /\ (pc \in {"close", "verify"} \/ Succeeded) => KeywordsStored(db_file.db.knowledge)

C7_Witness ==
    /\ Succeeded
    /\ Len(db_file.db.knowledge) = 2
    /\ db_file.db.knowledge[1].keywords = "smoke, flame"
    /\ db_file.db.knowledge[2].keywords = ""

\* C8: at every point of create_database before the final commit, and after
\* an abort at any step, the output path holds no committed schema object,
\* row or metadata.
C8_NothingCommittedBeforeCommit ==
    ( \/ pc \in {"schema", "insert", "metadata_table", "metadata_rows", "commit"}
      \/ pc = "exit" /\ error \in {"KeyError", "IntegrityError", "OperationalError"} )
    => db_file.db = EmptyDb

\* C9: the loader goes through every file and its result holds no scenario
\* of a file whose load raised.
C9_FailingFileSkipped ==
    /\ pc = "check" => files_read = knowledge_dir.json_files
    /\ \A k \in DOMAIN origin : origin[k] \notin failed

\* A scenario that lacks one of the required keys.
Lacks(scenario) == \E f \in ScenarioKeys : f \notin DOMAIN scenario

\* C10: a loaded scenario that lacks a required field is not passed over:
\* no row is inserted for it or for a later scenario, the metadata is not
\* written, the run reaches neither the verifier nor exit status 0, and
\* when the loop stops at that scenario it stops with a key-access error
\* (or a storage-engine error).
C10_MissingFieldAborts ==
    \A k \in DOMAIN all_scenarios :
        Lacks(all_scenarios[k]) =>
            /\ i < k
            /\ Len(conn.db.knowledge) < k
            /\ conn.db.metadata = {}
            /\ pc \notin {"main", "glob", "load", "check", "unlink"} =>
                   /\ Len(db_file.db.knowledge) < k
                   /\ db_file.db.metadata = {}
            /\ pc \notin {"metadata_table", "metadata_rows", "commit", "close", "verify"}
            /\ exit_status # 0
            /\ (pc = "exit" /\ stmt = Len(SchemaStatements) /\ i = k - 1)
                   => error \in {"KeyError", "OperationalError"}

C10_Witness ==
    /\ pc = "exit"
    /\ error = "KeyError"
    /\ i = 1
    /\ Len(all_scenarios) = 2
    /\ Lacks(all_scenarios[2])

====
